---- MODULE Spec2Model ----
(***************************************************************************)
(* Multi-tenant connection manager (src/lib/surrealdb-multi.ts) and the    *)
(* organization database setup service (src/services/database/             *)
(* setup.service.ts).                                                      *)
(*                                                                         *)
(* Strings are sequences of one-character strings, so that the template    *)
(* literals of the source (`${namespace}:${database}`) are real            *)
(* concatenations.  Every await of the source is a scheduling point: the   *)
(* code between two awaits is one action.                                  *)
(***************************************************************************)
EXTENDS Naturals, Sequences, FiniteSets

VARIABLES
  connections,  \* MultiDatabaseManager.connections : key -> Surreal instance
  connecting,   \* MultiDatabaseManager.connecting  : key -> promise (attempt)
  attempts,     \* the createConnection invocations, in creation order
  socket,       \* socket[i]: network connection of the Surreal instance i
  calls,        \* the getConnection invocations, in issue order
  shut,         \* the shutdown invocations, in issue order
  setups,       \* the setupOrganizationDatabase / createOrganizationDatabase
                \* invocations, in issue order
  orgs,         \* control tenant: organization record id -> metadata field
  remote,       \* the <<namespace, database>> pairs the server holds a schema for
  checks,       \* the checkOrganizationSetup / checkOrganizationDatabaseExists /
                \* getOrganizationDatabase invocations, in issue order
  env,          \* the parsed environment (env.ts)
  files         \* the schema files in process.cwd(): file name -> content

managerVars == <<connections, connecting, attempts, socket, calls, shut>>
setupVars == <<setups, orgs, remote, checks, env, files>>
vars == <<connections, connecting, attempts, socket, calls, shut,
          setups, orgs, remote, checks, env, files>>

----------------------------------------------------------------------------
(* Bounds of the model *)

MaxCalls == 2
MaxShutdowns == 1
MaxSetups == 1

----------------------------------------------------------------------------
(* Strings *)

NsA == <<"a">>
NsAB == <<"a", ":", "b">>
DbC == <<"c">>
DbBC == <<"b", ":", "c">>

\* The (namespace, database) pairs the callers ask for.  The first two
\* differ in namespace and in database.
Tenants == { <<NsAB, DbC>>, <<NsA, DbBC>>, <<NsA, DbC>> }

\* const key = `${namespace}:${database}`
KeyOf(namespace, database) == namespace \o <<":">> \o database

Keys == { KeyOf(t[1], t[2]) : t \in Tenants }

----------------------------------------------------------------------------
(* Values *)

EmptyMap == [k \in {} |-> 0]

NoErr == [kind |-> "none", op |-> "none", db |-> 0]

\* what db.connect / db.use reject with
TransportError(op, i) == [kind |-> "Transport", op |-> op, db |-> i]

Put(map, k, v) == [x \in (DOMAIN map) \cup {k} |-> IF x = k THEN v ELSE map[x]]
Delete(map, k) == [x \in (DOMAIN map) \ {k} |-> map[x]]
Values(map) == { map[k] : k \in DOMAIN map }

ShutdownInvoked == Len(shut) > 0

\* the literal 'needexcel_organization' of createOrganizationDatabase (the
\* 'Surreal-NS' header) and of checkOrganizationDatabaseExists (abbreviated
\* value)
OrganizationNamespace == <<"o", "r", "g", "n", "s">>

\* env.ts line 22: ORG_NS is read from the environment, and is the same
\* string as the literal when the variable is not set
DefaultEnv == [ ORG_NS |-> OrganizationNamespace ]
ConfiguredEnv == [ ORG_NS |-> <<"t", "n", "s">> ]

\* the token __DATABASE_NAME__ of the schema files (abbreviated value; like
\* the token it begins and ends with the same character)
PlaceholderToken == <<"_", "D", "_">>

SchemaFiles == { "schema-retail.surql", "schema-restaurant.surql" }

\* the schema files as deployed: text that names the database twice
DeployedSchemas ==
  [ f \in SchemaFiles |-> <<"N">> \o PlaceholderToken \o <<";">> \o PlaceholderToken ]

\* str.startsWith(token, pos)
MatchesAt(str, pos, token) ==
  /\ pos + Len(token) - 1 <= Len(str)
  /\ SubSeq(str, pos, pos + Len(token) - 1) = token

\* the character U+0060 (written "<" here: a TLA+ string cannot hold it)
GraveAccent == "<"

\* GetSubstitution of String.prototype.replace for a pattern without
\* capture groups: in the replacement string $$ stands for $, $& for the
\* match, $ and U+0060 for the text before it, $' for the text after it
RECURSIVE GetSubstitution(_, _, _, _, _)
GetSubstitution(replacement, i, matched, before, after) ==
  IF i > Len(replacement) THEN << >>
  ELSE IF replacement[i] = "$" /\ i < Len(replacement)
            /\ replacement[i + 1] \in {"$", "&", GraveAccent, "'"}
    THEN ( CASE replacement[i + 1] = "$" -> <<"$">>
             [] replacement[i + 1] = "&" -> matched
             [] replacement[i + 1] = GraveAccent -> before
             [] OTHER -> after )
         \o GetSubstitution(replacement, i + 2, matched, before, after)
    ELSE << replacement[i] >>
         \o GetSubstitution(replacement, i + 1, matched, before, after)

\* str.replace(/token/g, replacement): the matches are found from left to
\* right and do not overlap
RECURSIVE ReplaceGlobal(_, _, _, _)
ReplaceGlobal(str, pos, token, replacement) ==
  IF pos > Len(str) THEN << >>
  ELSE IF MatchesAt(str, pos, token)
    THEN GetSubstitution(replacement, 1, token, SubSeq(str, 1, pos - 1),
                         SubSeq(str, pos + Len(token), Len(str)))
         \o ReplaceGlobal(str, pos + Len(token), token, replacement)
    ELSE << str[pos] >> \o ReplaceGlobal(str, pos + 1, token, replacement)

\* surrealdb-multi.ts line 95 (and line 144 of runSchemaFile)
SchemaContent(template, database) ==
  ReplaceGlobal(template, 1, PlaceholderToken, database)

ShutdownRunning == \E s \in 1..Len(shut) : shut[s].pc = "closing"

----------------------------------------------------------------------------
(* getConnection *)

\* The error a rejected createConnection promise carries: the catch block
\* logs and rethrows what it caught.
RethrownAsNewError(error) == [kind |-> "Error", op |-> "none", db |-> 0]
Rethrown(error) == error

\* what the calls on `key` that have completed successfully returned
SeenOn(key) ==
  { calls[c].result : c \in { c \in 1..Len(calls) :
        calls[c].key = key /\ calls[c].pc = "returned" } }

PendingOn(key) ==
  { c \in 1..Len(calls) : calls[c].key = key /\ calls[c].pc = "await" }

NewCall(namespace, database, role, att, pc, result) ==
  [ ns |-> namespace, db |-> database, key |-> KeyOf(namespace, database),
    role |-> role, att |-> att, pc |-> pc, result |-> result, err |-> NoErr,
    late |-> ShutdownInvoked,
    seen |-> SeenOn(KeyOf(namespace, database)),
    pending |-> PendingOn(KeyOf(namespace, database)),
    \* the attempts on the key that failed and whose failure the creating
    \* call has handled (lines 43-45)
    failed |-> { i \in 1..Len(attempts) :
                   /\ attempts[i].key = KeyOf(namespace, database)
                   /\ attempts[i].pc = "rejected" /\ attempts[i].ownerDone } ]

\* lines 25-27: the key is cached
CacheHit(namespace, database) ==
  LET key == KeyOf(namespace, database) IN
  /\ key \in DOMAIN connections
  /\ calls' = Append(calls, NewCall(namespace, database, "hit", 0, "returned",
                                    connections[key]))
  /\ UNCHANGED <<connections, connecting, attempts, socket>>

\* lines 30-32: an attempt is registered for the key; its promise is returned
JoinAttempt(namespace, database) ==
  LET key == KeyOf(namespace, database) IN
  /\ key \notin DOMAIN connections
  /\ key \in DOMAIN connecting
  /\ calls' = Append(calls, NewCall(namespace, database, "follower",
                                    connecting[key], "await", 0))
  /\ UNCHANGED <<connections, connecting, attempts, socket>>

\* lines 35-39: createConnection runs up to `await db.connect`, its promise
\* is registered, and the caller awaits it
StartAttemptGuardNoRegistry(key) == key \notin DOMAIN connections
StartAttemptGuard(key) == key \notin DOMAIN connections /\ key \notin DOMAIN connecting
StartAttempt(namespace, database) ==
  LET key == KeyOf(namespace, database)
      i   == Len(attempts) + 1 IN
  /\ StartAttemptGuard(key)
  /\ attempts' = Append(attempts,
        [key |-> key, ns |-> namespace, db |-> database, pc |-> "connect",
         err |-> NoErr, owner |-> Len(calls) + 1, ownerDone |-> FALSE])
  /\ socket' = Append(socket, "unopened")
  /\ connecting' = Put(connecting, key, i)
  /\ calls' = Append(calls, NewCall(namespace, database, "owner", i, "await", 0))
  /\ UNCHANGED connections

\* lines 21-39: getConnection up to its return or its await
IssueGetConnection(namespace, database) ==
  \/ CacheHit(namespace, database)
  \/ JoinAttempt(namespace, database)
  \/ StartAttempt(namespace, database)

\* a request handler, a middleware or a job calls getConnection
GetConnection(namespace, database) ==
  /\ Len(calls) < MaxCalls
  /\ IssueGetConnection(namespace, database)
  /\ UNCHANGED shut

----------------------------------------------------------------------------
(* createConnection *)

\* lines 57-59: await db.connect(...) settles
ConnectSettles(i) ==
  /\ attempts[i].pc = "connect"
  /\ \/ /\ socket' = [socket EXCEPT ![i] = "open"]
        /\ attempts' = [attempts EXCEPT ![i].pc = "use"]
     \/ /\ attempts' = [attempts EXCEPT ![i].pc = "rejected",
                          ![i].err = Rethrown(TransportError("connect", i))]
        /\ UNCHANGED socket
  /\ UNCHANGED <<connections, connecting, calls, shut>>

\* lines 61-67: await db.use({ namespace, database }) settles; on a failure
\* the catch block rethrows and nothing closes the instance
SocketAfterFailedUse(state) == state
UseSettles(i) ==
  /\ attempts[i].pc = "use"
  /\ \/ /\ attempts' = [attempts EXCEPT ![i].pc = "fulfilled"]
        /\ UNCHANGED socket
     \/ /\ attempts' = [attempts EXCEPT ![i].pc = "rejected",
                          ![i].err = Rethrown(TransportError("use", i))]
        /\ socket' = [socket EXCEPT ![i] = SocketAfterFailedUse(socket[i])]
  /\ UNCHANGED <<connections, connecting, calls, shut>>

----------------------------------------------------------------------------
(* getConnection resumes *)

\* line 40: this.connections.set(key, db)
AfterSuccessNotCached(key, i) == connections
AfterSuccess(key, i) == Put(connections, key, i)

\* lines 41 and 44: this.connecting.delete(key), after the promise was
\* fulfilled and after it was rejected
RegistryAfterKeptOnFailure(key, outcome) ==
  IF outcome = "fulfilled" THEN Delete(connecting, key) ELSE connecting
RegistryAfterKeptOnSuccess(key, outcome) ==
  IF outcome = "rejected" THEN Delete(connecting, key) ELSE connecting
RegistryAfter(key, outcome) == Delete(connecting, key)

\* line 39: `await connectionPromise` is left when the promise is settled,
\* fulfilled or rejected
SettledOnlyFulfilled(i) == attempts[i].pc = "fulfilled"
SettledPromise(i) == attempts[i].pc \in {"fulfilled", "rejected"}

\* lines 39-46: the caller that created the promise resumes after its await
OwnerResumes(c) ==
  LET i == calls[c].att IN
  /\ calls[c].role = "owner"
  /\ calls[c].pc = "await"
  /\ SettledPromise(i)
  /\ IF attempts[i].pc = "fulfilled"
       THEN /\ connections' = AfterSuccess(calls[c].key, i)
            /\ calls' = [calls EXCEPT ![c].pc = "returned", ![c].result = i]
       ELSE /\ UNCHANGED connections
            /\ calls' = [calls EXCEPT ![c].pc = "threw", ![c].err = attempts[i].err]
  /\ connecting' = RegistryAfter(calls[c].key, attempts[i].pc)
  /\ attempts' = [attempts EXCEPT ![i].ownerDone = TRUE]
  /\ UNCHANGED <<socket, shut>>

\* line 31: a caller that was handed the registered promise settles with it.
\* The owner's await (line 39) is the first reaction registered on the
\* promise, and reactions run in registration order.
FollowerSettles(c) ==
  LET i == calls[c].att IN
  /\ calls[c].role = "follower"
  /\ calls[c].pc = "await"
  /\ attempts[i].ownerDone
  /\ IF attempts[i].pc = "fulfilled"
       THEN calls' = [calls EXCEPT ![c].pc = "returned", ![c].result = i]
       ELSE calls' = [calls EXCEPT ![c].pc = "threw", ![c].err = attempts[i].err]
  /\ UNCHANGED <<connections, connecting, attempts, socket, shut>>

----------------------------------------------------------------------------
(* getStats and shutdown *)

\* lines 183-189: a synchronous read of both maps
GetStats ==
  [ totalConnections |-> Cardinality(DOMAIN connections),
    databases |-> DOMAIN connections,
    connecting |-> Cardinality(DOMAIN connecting) ]

\* lines 197-201: db.close() is called on every cached instance and each
\* rejection is caught and logged, so Promise.all never rejects
CloseAllUncaught(snapshot, failing) ==
  [ attempted |-> snapshot,
    outcome   |-> IF failing = {} THEN "ok" ELSE "threw" ]
CloseAll(snapshot, failing) ==
  [ attempted |-> snapshot, outcome |-> "ok" ]

ShutdownStart ==
  /\ Len(shut) < MaxShutdowns
  /\ \E failing \in SUBSET Values(connections) :
       LET snapshot == Values(connections)
           r == CloseAll(snapshot, failing) IN
       /\ socket' = [i \in DOMAIN socket |->
                       IF i \in r.attempted \ failing THEN "closed" ELSE socket[i]]
       /\ shut' = Append(shut,
            [ pc |-> IF r.outcome = "ok" THEN "closing" ELSE "threw",
              snapshot |-> snapshot, attempted |-> r.attempted,
              failing |-> failing,
              cacheAfter |-> {}, registryAfter |-> {} ])
  /\ UNCHANGED <<connections, connecting, attempts, calls>>

\* lines 203-206: await Promise.all(...) resumes; both maps are cleared
Cleared(map) == EmptyMap

ShutdownFinish(s) ==
  /\ shut[s].pc = "closing"
  /\ connections' = Cleared(connections)
  /\ connecting' = Cleared(connecting)
  /\ shut' = [shut EXCEPT ![s].pc = "done",
                          ![s].cacheAfter = DOMAIN connections',
                          ![s].registryAfter = DOMAIN connecting']
  /\ UNCHANGED <<attempts, socket, calls>>

----------------------------------------------------------------------------
(* The connection manager under concurrent callers *)

Init ==
  /\ connections = EmptyMap
  /\ connecting = EmptyMap
  /\ attempts = << >>
  /\ socket = << >>
  /\ calls = << >>
  /\ shut = << >>
  /\ setups = << >>
  /\ orgs = EmptyMap
  /\ remote = {}
  /\ checks = << >>
  /\ env = DefaultEnv
  /\ files = DeployedSchemas

Next ==
  \/ \E t \in Tenants : GetConnection(t[1], t[2]) /\ UNCHANGED setupVars
  \/ \E i \in 1..Len(attempts) : ConnectSettles(i) /\ UNCHANGED setupVars
  \/ \E i \in 1..Len(attempts) : UseSettles(i) /\ UNCHANGED setupVars
  \/ \E c \in 1..Len(calls) : OwnerResumes(c) /\ UNCHANGED setupVars
  \/ \E c \in 1..Len(calls) : FollowerSettles(c) /\ UNCHANGED setupVars
  \/ ShutdownStart /\ UNCHANGED setupVars
  \/ \E s \in 1..Len(shut) : ShutdownFinish(s) /\ UNCHANGED setupVars

Spec == Init /\ [][Next]_vars

----------------------------------------------------------------------------
(* Claims about the connection manager *)

Completed(c) == calls[c].pc \in {"returned", "threw"}
Outcome(c) == <<calls[c].pc, calls[c].result, calls[c].err>>

\* C1: when getConnection(k) calls are issued while k is not cached and
\* before any of them has completed (the first of them creates the attempt,
\* the others are issued while it is still pending), only that one
\* createConnection is started for k, and all of them receive the same
\* connection or the same error.  Calls issued after shutdown() was invoked
\* are outside the contract of the manager (spec 4.1) and are left out.
C1_ConcurrentCallsShareOneAttempt ==
  \A j \in 1..Len(calls) : \A o \in calls[j].pending :
    (calls[o].role = "owner" /\ ~calls[j].late) =>
      /\ calls[j].role = "follower"
      /\ calls[j].att = calls[o].att
      /\ Cardinality({ i \in 1..Len(attempts) :
                         attempts[i].key = calls[o].key /\ i >= calls[o].att
                         /\ attempts[i].owner <= j }) = 1
      /\ (Completed(o) /\ Completed(j)) => Outcome(o) = Outcome(j)

C1_Witness ==
  \E j \in 1..Len(calls) : \E o \in calls[j].pending :
    /\ calls[o].role = "owner" /\ ~calls[j].late
    /\ Completed(o) /\ Completed(j)

\* C2: once a getConnection(k) has completed successfully, a later
\* getConnection(k), with no shutdown invoked before it, is a cache hit that
\* returns the same connection and starts no createConnection.
C2_LaterCallsHitTheCache ==
  \A c \in 1..Len(calls) :
    (~calls[c].late /\ calls[c].seen # {}) =>
      /\ calls[c].role = "hit"
      /\ calls[c].pc = "returned"
      /\ calls[c].seen = {calls[c].result}
      /\ \A i \in 1..Len(attempts) : attempts[i].owner # c

C2_Witness ==
  \E c \in 1..Len(calls) :
    ~calls[c].late /\ calls[c].seen # {} /\ calls[c].pc = "returned"

\* C3: before shutdown, whatever the calls, failures and retries, no key has
\* two opened network connections.
OpenedFor(key) ==
  { i \in 1..Len(attempts) : attempts[i].key = key /\ socket[i] # "unopened" }

C3_OneOpenedConnectionPerKey ==
  ~ShutdownInvoked => \A key \in Keys : Cardinality(OpenedFor(key)) <= 1

\* C4: two (namespace, database) pairs that differ in namespace or in
\* database never get the same connection.
C4_ConnectionBoundToOnePair ==
  \A c \in 1..Len(calls) : \A d \in 1..Len(calls) :
    ( /\ calls[c].pc = "returned" /\ calls[d].pc = "returned"
      /\ <<calls[c].ns, calls[c].db>> # <<calls[d].ns, calls[d].db>> )
    => calls[c].result # calls[d].result

C6_ShutdownClosesAllAndClears ==
  \A s \in 1..Len(shut) :
    /\ shut[s].attempted = shut[s].snapshot
    /\ shut[s].pc # "threw"
    /\ shut[s].pc = "done" =>
         shut[s].cacheAfter = {} /\ shut[s].registryAfter = {}

C6_Witness ==
  \E s \in 1..Len(shut) :
    /\ shut[s].pc = "done"
    /\ shut[s].failing # {}
    /\ shut[s].snapshot \ shut[s].failing # {}

\* C7: after shutdown() has completed (and no getConnection was issued after
\* it was invoked), getStats() reports no connection, no key and no attempt.
C7_StatsZeroAfterShutdown ==
  ( /\ ShutdownInvoked
    /\ \A s \in 1..Len(shut) : shut[s].pc = "done"
    /\ \A c \in 1..Len(calls) : ~calls[c].late )
  => GetStats = [ totalConnections |-> 0, databases |-> {}, connecting |-> 0 ]

\* C22: a registry entry belongs to an attempt whose outcome the creating
\* call has not handled yet: that call removes the entry when the attempt
\* succeeded and when it failed.  A getConnection(k) issued after a failed
\* attempt on k was handled is not served by that attempt and does not get
\* its error: it starts a connect of its own, or is served by one started
\* after the failure.
C22_RegistryEntryOnlyWhileUnresolved ==
  /\ \A key \in DOMAIN connecting : ~attempts[connecting[key]].ownerDone
  /\ \A c \in 1..Len(calls) : \A i \in calls[c].failed :
       /\ calls[c].att # i
       /\ calls[c].role = "owner" => attempts[calls[c].att].owner = c
       /\ calls[c].pc = "returned" => calls[c].result # i
       /\ calls[c].pc = "threw" => calls[c].err # attempts[i].err

\* a call started a new connect after a failed attempt on its key, and a
\* call resumed from a fulfilled attempt
C22_Witness ==
  /\ \E c \in 1..Len(calls) :
       calls[c].failed # {} /\ calls[c].role = "owner" /\ Completed(c)
  /\ \E c \in 1..Len(calls) : calls[c].role = "owner" /\ calls[c].pc = "returned"

\* The reactions registered on a settled promise are run by the job queue:
\* a call suspended at line 39, or holding the promise returned at line 31,
\* resumes once it can.  Nothing is assumed about db.connect and db.use.
Resumes(c) ==
  /\ c \in 1..Len(calls)
  /\ OwnerResumes(c) \/ FollowerSettles(c)
  /\ UNCHANGED setupVars

\* the callers of one tenant, next to shutdown
FairTenants == { <<NsA, DbC>> }

NextFair ==
  \/ \E t \in FairTenants : GetConnection(t[1], t[2]) /\ UNCHANGED setupVars
  \/ \E i \in 1..Len(attempts) : ConnectSettles(i) /\ UNCHANGED setupVars
  \/ \E i \in 1..Len(attempts) : UseSettles(i) /\ UNCHANGED setupVars
  \/ \E c \in 1..Len(calls) : OwnerResumes(c) /\ UNCHANGED setupVars
  \/ \E c \in 1..Len(calls) : FollowerSettles(c) /\ UNCHANGED setupVars
  \/ ShutdownStart /\ UNCHANGED setupVars
  \/ \E s \in 1..Len(shut) : ShutdownFinish(s) /\ UNCHANGED setupVars

SpecFair ==
  Init /\ [][NextFair]_vars /\ \A c \in 1..MaxCalls : WF_vars(Resumes(c))

\* call c waits on an attempt whose createConnection has settled
WaitsOnSettled(c) ==
  /\ c \in 1..Len(calls)
  /\ calls[c].pc = "await"
  /\ attempts[calls[c].att].pc \in { "fulfilled", "rejected" }

\* attempt i has settled and is still registered
RegisteredSettled(i) ==
  /\ i \in 1..Len(attempts)
  /\ attempts[i].pc \in { "fulfilled", "rejected" }
  /\ attempts[i].key \in DOMAIN connecting
  /\ connecting[attempts[i].key] = i

\* C23: once the attempt a call waits on has settled, the call eventually
\* returns or throws, and the registry entry of the attempt is eventually
\* removed.
C23_WaitersAreWoken ==
  /\ \A c \in 1..MaxCalls :
       WaitsOnSettled(c) ~> ( c \in 1..Len(calls) /\ Completed(c) )
  /\ \A i \in 1..MaxCalls :
       RegisteredSettled(i) ~> ~RegisteredSettled(i)

\* a call that joined an attempt has thrown with it and another has
\* returned from a fulfilled one, and no settled attempt is registered
C23_Witness ==
  /\ \E c \in 1..Len(calls) : calls[c].role = "follower" /\ Completed(c)
  /\ \A c \in 1..Len(calls) : Completed(c)
  /\ \A i \in 1..Len(attempts) : ~RegisteredSettled(i)

\* shutdown has completed and so has every getConnection call; none of the
\* calls was issued after shutdown was invoked, every attempt succeeded and
\* no close() failed
ShutdownAndAttemptsFinished ==
  /\ ShutdownInvoked
  /\ \A s \in 1..Len(shut) : shut[s].pc = "done" /\ shut[s].failing = {}
  /\ \A c \in 1..Len(calls) : Completed(c) /\ ~calls[c].late
  /\ \A i \in 1..Len(attempts) : attempts[i].pc = "fulfilled"

\* C24: when shutdown runs next to connection attempts, then once shutdown
\* and the attempts have finished the cache is empty and every connection
\* that was opened is closed.
C24_ShutdownLeavesNothingOpen ==
  ShutdownAndAttemptsFinished =>
    /\ connections = EmptyMap
    /\ \A i \in 1..Len(socket) : socket[i] # "open"

\* C25: no key is in the cache and in the registry at the same time.
C25_CacheAndRegistryDisjoint ==
  DOMAIN connections \cap DOMAIN connecting = {}

\* shutdown cleared the registry while an attempt on a key was pending, a
\* second attempt on the key was registered, and one of the two has put its
\* connection into the cache
C25_Witness ==
  /\ ShutdownInvoked
  /\ \E key \in DOMAIN connections :
       Cardinality({ i \in 1..Len(attempts) : attempts[i].key = key }) = 2

----------------------------------------------------------------------------
(* setup.service.ts: strings and values *)

\* env.MAIN_NS, env.MAIN_DB: the control tenant (abbreviated values)
MAIN_NS == <<"m", "a", "i", "n">>
MAIN_DB == <<"c", "o", "r", "e">>

OrganizationPrefix ==
  <<"o", "r", "g", "a", "n", "i", "z", "a", "t", "i", "o", "n", ":">>

\* organizationId.startsWith(prefix)
StartsWith(str, prefix) ==
  Len(str) >= Len(prefix) /\ SubSeq(str, 1, Len(prefix)) = prefix

\* organizationId.replace(/^organization:/, '')
CleanOrgId(organizationId) ==
  IF StartsWith(organizationId, OrganizationPrefix)
    THEN SubSeq(organizationId, Len(OrganizationPrefix) + 1, Len(organizationId))
    ELSE organizationId

\* updateOrganizationMetadata: the record id the two queries address
UpdateRecordId(organizationId) ==
  IF StartsWith(organizationId, OrganizationPrefix)
    THEN organizationId
    ELSE OrganizationPrefix \o organizationId

\* `org_${orgId}`
DatabaseName(orgId) == <<"o", "r", "g", "_">> \o orgId

\* the ids and the types the callers pass
OrganizationIds == { OrganizationPrefix \o <<"x">> }
OrganizationTypes == { "retail", "restaurant", "bogus" }

\* createOrganizationDatabase line 85
SchemaFile(orgType) ==
  IF orgType = "retail" THEN "schema-retail.surql" ELSE "schema-restaurant.surql"

\* setupOrganizationDatabase line 38
ValidType(organizationType) ==
  organizationType = "retail" \/ organizationType = "restaurant"

NoMessage == "none"
InvalidTypeMessage == "Invalid organization type"
ReadFileMessage == "ENOENT"
HttpMessage == "Request failed"
ConnectMessage == "connection failed"
QueryMessage == "query failed"

ProvisioningMessages == { InvalidTypeMessage, ReadFileMessage, HttpMessage }

\* error.message of what getConnection threw
MessageOf(error) == IF error.kind = "none" THEN NoMessage ELSE ConnectMessage

\* A metadata value.  shape "none": the field is unset; "object": an object
\* with an unrelated key `plan` (other), a `setup` object and, when spread
\* is TRUE, the index keys "0", "1", ... of a string that was spread into
\* it; "string": the JSON text of that object.
NoSetup ==
  [ present |-> FALSE, database |-> << >>, setupStatus |-> "absent",
    setupTimestamp |-> 0, setupError |-> "absent", organizationType |-> "absent" ]
NoMetadata ==
  [ shape |-> "none", other |-> "absent", setup |-> NoSetup, spread |-> FALSE ]
EmptyObject ==
  [ shape |-> "object", other |-> "absent", setup |-> NoSetup, spread |-> FALSE ]

InitialMetadata ==
  { NoMetadata,
    [ EmptyObject EXCEPT !.other = "gold" ],
    [ EmptyObject EXCEPT !.other = "gold", !.shape = "string" ] }

\* JSON.stringify(updatedMetadata)
StringifyKeepsObject(object) == object
Stringify(object) == [ object EXCEPT !.shape = "string" ]

\* orgRecord?.metadata || {}   (the JSON text of an object is never empty)
CurrentMetadata(metadata) ==
  IF metadata.shape = "none" THEN EmptyObject ELSE metadata

\* { ...currentMetadata }: the own enumerable keys of an object, the index
\* keys of a string
SpreadOf(current) ==
  IF current.shape = "string"
    THEN [ EmptyObject EXCEPT !.spread = TRUE ]
    ELSE current

\* currentMetadata.setup || {}: a string has no property `setup`
SetupOf(current) ==
  IF current.shape = "string" THEN NoSetup ELSE current.setup

\* { ...(currentMetadata.setup || {}), ...metadata }
MergeSetup(old, patch) ==
  [ present |-> TRUE,
    database |-> IF "database" \in patch.keys THEN patch.database ELSE old.database,
    setupStatus |-> IF "setupStatus" \in patch.keys
                      THEN patch.setupStatus ELSE old.setupStatus,
    setupTimestamp |-> IF "setupTimestamp" \in patch.keys
                         THEN patch.setupTimestamp ELSE old.setupTimestamp,
    setupError |-> IF "setupError" \in patch.keys
                     THEN patch.setupError ELSE old.setupError,
    organizationType |-> IF "organizationType" \in patch.keys
                           THEN patch.organizationType ELSE old.organizationType ]

\* lines 128-137
UpdatedMetadata(metadata, patch) ==
  LET current == CurrentMetadata(metadata) IN
  [ SpreadOf(current) EXCEPT !.setup = MergeSetup(SetupOf(current), patch) ]

\* lines 57-60
CompletedPatch(rec) ==
  [ keys |-> {"database", "setupStatus", "setupTimestamp", "organizationType"},
    database |-> DatabaseName(CleanOrgId(rec.organizationId)),
    setupStatus |-> "completed", setupTimestamp |-> rec.timestamp,
    setupError |-> "absent", organizationType |-> rec.organizationType ]

\* lines 87-89
FailedPatch(rec, errorMessage) ==
  [ keys |-> {"setupStatus", "setupError", "setupTimestamp"},
    database |-> << >>,
    setupStatus |-> "failed", setupTimestamp |-> rec.timestamp,
    setupError |-> errorMessage, organizationType |-> "absent" ]

NoPatch ==
  [ keys |-> {}, database |-> << >>, setupStatus |-> "absent",
    setupTimestamp |-> 0, setupError |-> "absent", organizationType |-> "absent" ]

NoResult == [ returned |-> FALSE, success |-> FALSE, error |-> NoMessage ]

----------------------------------------------------------------------------
(* setupOrganizationDatabase, updateOrganizationMetadata and               *)
(* createOrganizationDatabase                                              *)

NewSetup(entry, organizationId, organizationType) ==
  [ entry |-> entry, organizationId |-> organizationId,
    organizationType |-> organizationType,
    timestamp |-> Len(setups) + 1,    \* new Date().toISOString()
    pc |-> "start", schemaFile |-> "none",
    template |-> << >>,               \* what readFile returned
    schemaContent |-> << >>,          \* the body of the HTTP request
    provisioned |-> FALSE,            \* axios.post resolved
    provError |-> NoMessage,          \* what validation, readFile or post threw
    errorMessage |-> NoMessage,       \* line 72
    phase |-> "none", patch |-> NoPatch, call |-> 0,
    recordId |-> << >>,               \* $orgId of the SELECT and the UPDATE
    read |-> NoMetadata,              \* orgRecord?.metadata of the SELECT
    write |-> NoMetadata,             \* the metadata parameter of the UPDATE
    io |-> {},                        \* the I/O done by this invocation
    writes |-> << >>,                 \* the updateOrganizationMetadata calls
    result |-> NoResult ]

\* lines 95-101: the result of the catch block
ReportedErrorLast(errorMessage, metadataError) ==
  IF metadataError = NoMessage THEN errorMessage ELSE metadataError
ReportedError(errorMessage, metadataError) == errorMessage

\* updateOrganizationMetadata up to `await getMainDB()` (line 113)
BeginUpdate(s, rec, phase, patch) ==
  /\ IssueGetConnection(MAIN_NS, MAIN_DB)
  /\ setups' = [setups EXCEPT ![s] =
       [ rec EXCEPT !.pc = "getMainDB", !.phase = phase, !.patch = patch,
                    !.call = Len(calls) + 1,
                    !.writes = Append(@, [ status |-> patch.setupStatus,
                                           error |-> patch.setupError,
                                           outcome |-> "pending" ]) ]]

Settled(rec, outcome) ==
  [ rec EXCEPT !.writes[Len(rec.writes)].outcome = outcome ]

\* lines 71-90: the catch block of setupOrganizationDatabase up to the await
\* inside updateOrganizationMetadata
Catch(s, rec, message) ==
  LET caught == [ rec EXCEPT !.errorMessage = message ] IN
  BeginUpdate(s, caught, "failed", FailedPatch(caught, message))

\* an await of setupOrganizationDatabase's try block rejects with `message`
ThrowInTry(s, rec, message) ==
  IF rec.entry = "create"
    THEN /\ setups' = [setups EXCEPT ![s] =
                [ rec EXCEPT !.pc = "threw", !.errorMessage = message ]]
         /\ UNCHANGED <<connections, connecting, attempts, socket, calls>>
    ELSE Catch(s, rec, message)

\* an await of updateOrganizationMetadata rejects with `message`: the catch
\* of line 146 rethrows; in the try block of setupOrganizationDatabase this
\* enters the catch of line 71, in its catch block the catch of line 91
ThrowInUpdate(s, rec, message) ==
  IF rec.phase = "failed"
    THEN /\ setups' = [setups EXCEPT ![s] =
                [ Settled(rec, "threw") EXCEPT
                    !.pc = "done",
                    !.result = [ returned |-> TRUE, success |-> FALSE,
                                 error |-> ReportedError(rec.errorMessage, message) ] ]]
         /\ UNCHANGED <<connections, connecting, attempts, socket, calls>>
    ELSE Catch(s, Settled(rec, "threw"), message)

\* setupOrganizationDatabase, lines 27-45 (and 71-90 for an invalid type):
\* the call runs up to its first await
IssueSetup(organizationId, organizationType) ==
  LET s == Len(setups) + 1
      rec == NewSetup("setup", organizationId, organizationType) IN
  /\ IF ValidType(organizationType)
       THEN /\ setups' = Append(setups,
                 [ rec EXCEPT !.pc = "readFile",
                              !.schemaFile = SchemaFile(organizationType) ])
            /\ UNCHANGED <<connections, connecting, attempts, socket, calls>>
       ELSE /\ IssueGetConnection(MAIN_NS, MAIN_DB)
            /\ setups' = Append(setups,
                 [ rec EXCEPT !.pc = "getMainDB", !.phase = "failed",
                     !.provError = InvalidTypeMessage,
                     !.errorMessage = InvalidTypeMessage,
                     !.patch = FailedPatch(rec, InvalidTypeMessage),
                     !.call = Len(calls) + 1,
                     !.writes = << [ status |-> "failed",
                                     error |-> InvalidTypeMessage,
                                     outcome |-> "pending" ] >> ])
  /\ UNCHANGED <<shut, orgs, remote, checks, env, files>>

\* a caller invokes setupOrganizationDatabase
SetupStart(organizationId, organizationType) ==
  /\ Len(setups) < MaxSetups
  /\ IssueSetup(organizationId, organizationType)

\* dbManager.createOrganizationDatabase called directly, lines 83-92
CreateStart(orgId, orgType) ==
  /\ Len(setups) < MaxSetups
  /\ setups' = Append(setups,
       [ NewSetup("create", orgId, orgType) EXCEPT
           !.pc = "readFile", !.schemaFile = SchemaFile(orgType) ])
  /\ UNCHANGED <<connections, connecting, attempts, socket, calls, shut,
                 orgs, remote, checks, env, files>>

\* lines 84 and 112-113: the namespace and the database the schema is
\* executed in
ProvisioningTarget(rec) ==
  LET orgId == IF rec.entry = "create" THEN rec.organizationId
               ELSE CleanOrgId(rec.organizationId) IN
  << OrganizationNamespace, DatabaseName(orgId) >>

\* dbManager.runSchemaFile(db, schemaFileName, databaseName), lines 137-141:
\* the record keeps databaseName in its field organizationId
RunSchemaFileStart(schemaFileName, databaseName) ==
  /\ Len(setups) < MaxSetups
  /\ setups' = Append(setups,
       [ NewSetup("run", databaseName, "none") EXCEPT
           !.pc = "readFile", !.schemaFile = schemaFileName ])
  /\ UNCHANGED <<connections, connecting, attempts, socket, calls, shut,
                 orgs, remote, checks, env, files>>

\* the name lines 95 and 144 put in the place of the token
SubstitutedName(rec) ==
  IF rec.entry = "run" THEN rec.organizationId ELSE ProvisioningTarget(rec)[2]

\* line 92 (141): await readFile(...) settles; lines 95-107 (144-147) run up
\* to axios.post (db.query)
ReadFileSettles(s) ==
  LET rec == [ setups[s] EXCEPT !.io = @ \cup {"readFile"} ] IN
  /\ setups[s].pc = "readFile"
  /\ \/ /\ setups' = [setups EXCEPT ![s] =
               [ rec EXCEPT !.pc = IF rec.entry = "run" THEN "query" ELSE "post",
                   !.template = files[rec.schemaFile],
                   !.schemaContent = SchemaContent(files[rec.schemaFile],
                                                   SubstitutedName(rec)) ]]
        /\ UNCHANGED <<connections, connecting, attempts, socket, calls>>
     \/ ThrowInTry(s, [ rec EXCEPT !.provError = ReadFileMessage ], ReadFileMessage)
  /\ UNCHANGED <<shut, orgs, remote, checks, env, files>>

\* line 107: await axios.post(...) settles.  On success the schema has been
\* executed in the namespace and database the headers name, and
\* setupOrganizationDatabase goes on to line 56.
PostSettles(s) ==
  LET rec == [ setups[s] EXCEPT !.io = @ \cup {"http"} ] IN
  /\ setups[s].pc = "post"
  /\ \/ /\ remote' = remote \cup { ProvisioningTarget(rec) }
        /\ LET done == [ rec EXCEPT !.provisioned = TRUE ] IN
           IF rec.entry = "create"
             THEN /\ setups' = [setups EXCEPT ![s] = [ done EXCEPT !.pc = "returned" ]]
                  /\ UNCHANGED <<connections, connecting, attempts, socket, calls>>
             ELSE BeginUpdate(s, done, "completed", CompletedPatch(done))
     \/ /\ ThrowInTry(s, [ rec EXCEPT !.provError = HttpMessage ], HttpMessage)
        /\ UNCHANGED remote
  /\ UNCHANGED <<shut, orgs, checks, env, files>>

\* line 147: await db.query(schemaContent) settles; runSchemaFile returns
\* or rethrows (lines 149-153)
RunQuerySettles(s) ==
  /\ setups[s].pc = "query"
  /\ \E pc \in { "returned", "threw" } :
       setups' = [setups EXCEPT ![s] =
         [ @ EXCEPT !.pc = pc, !.io = @ \cup {"query"},
                    !.errorMessage = IF pc = "threw" THEN QueryMessage ELSE @ ]]
  /\ UNCHANGED <<connections, connecting, attempts, socket, calls, shut,
                 orgs, remote, checks, env, files>>

\* line 113: await getMainDB() settles; lines 114-122 run up to the SELECT
GetMainDBSettles(s) ==
  LET rec == setups[s]
      c   == rec.call IN
  /\ rec.pc = "getMainDB"
  /\ Completed(c)
  /\ IF calls[c].pc = "returned"
       THEN /\ setups' = [setups EXCEPT ![s] =
                   [ rec EXCEPT !.pc = "select",
                       !.recordId = UpdateRecordId(rec.organizationId),
                       !.io = @ \cup (IF calls[c].role = "hit" THEN {} ELSE {"connect"}) ]]
            /\ UNCHANGED <<connections, connecting, attempts, socket, calls>>
       ELSE ThrowInUpdate(s, [ rec EXCEPT !.io = @ \cup {"connect"} ],
                          MessageOf(calls[c].err))
  /\ UNCHANGED <<shut, orgs, remote, checks, env, files>>

\* orgResult?.[0]?.[0]?.metadata of `SELECT metadata FROM $orgId`
StoredMetadata(id) == IF id \in DOMAIN orgs THEN orgs[id] ELSE NoMetadata

\* line 119: the SELECT settles; lines 125-143 run up to the UPDATE
SelectSettles(s) ==
  LET rec == [ setups[s] EXCEPT !.io = @ \cup {"query"} ]
      id  == UpdateRecordId(rec.organizationId) IN
  /\ setups[s].pc = "select"
  /\ \/ /\ setups' = [setups EXCEPT ![s] =
               [ rec EXCEPT !.pc = "update",
                   !.read = StoredMetadata(id),
                   !.write = Stringify(UpdatedMetadata(StoredMetadata(id),
                                                       rec.patch)) ]]
        /\ UNCHANGED <<connections, connecting, attempts, socket, calls>>
     \/ ThrowInUpdate(s, rec, QueryMessage)
  /\ UNCHANGED <<shut, orgs, remote, checks, env, files>>

\* line 140: the UPDATE settles; updateOrganizationMetadata returns and
\* setupOrganizationDatabase returns its result (lines 65-70 or 95-101)
UpdateSettles(s) ==
  LET rec == setups[s]
      id  == UpdateRecordId(rec.organizationId) IN
  /\ rec.pc = "update"
  /\ \/ /\ orgs' = IF id \in DOMAIN orgs THEN [orgs EXCEPT ![id] = rec.write] ELSE orgs
        /\ setups' = [setups EXCEPT ![s] =
               [ Settled(rec, "ok") EXCEPT
                   !.pc = "done",
                   !.result = IF rec.phase = "completed"
                     THEN [ returned |-> TRUE, success |-> TRUE, error |-> NoMessage ]
                     ELSE [ returned |-> TRUE, success |-> FALSE,
                            error |-> ReportedError(rec.errorMessage, NoMessage) ] ]]
        /\ UNCHANGED <<connections, connecting, attempts, socket, calls>>
     \/ /\ ThrowInUpdate(s, rec, QueryMessage)
        /\ UNCHANGED orgs
  /\ UNCHANGED <<shut, remote, checks, env, files>>

----------------------------------------------------------------------------
(* Provisioning next to the requests that use the control tenant *)

\* The manager as a request left it before the provisioning starts
\* (databaseMiddleware calls getConnection(MAIN_NS, MAIN_DB) on every
\* request): nothing asked for yet, the control-tenant connection being
\* established, or established and cached.
MainKey == KeyOf(MAIN_NS, MAIN_DB)

FirstCall(pc, result) ==
  [ ns |-> MAIN_NS, db |-> MAIN_DB, key |-> MainKey, role |-> "owner", att |-> 1,
    pc |-> pc, result |-> result, err |-> NoErr, late |-> FALSE,
    seen |-> {}, pending |-> {}, failed |-> {} ]

FirstAttempt(pc, ownerDone) ==
  [ key |-> MainKey, ns |-> MAIN_NS, db |-> MAIN_DB, pc |-> pc, err |-> NoErr,
    owner |-> 1, ownerDone |-> ownerDone ]

InitManager ==
  \/ /\ connections = EmptyMap /\ connecting = EmptyMap
     /\ attempts = << >> /\ socket = << >> /\ calls = << >>
  \/ /\ connections = EmptyMap /\ connecting = Put(EmptyMap, MainKey, 1)
     /\ attempts = << FirstAttempt("connect", FALSE) >>
     /\ socket = << "unopened" >>
     /\ calls = << FirstCall("await", 0) >>
  \/ /\ connections = Put(EmptyMap, MainKey, 1) /\ connecting = EmptyMap
     /\ attempts = << FirstAttempt("fulfilled", TRUE) >>
     /\ socket = << "open" >>
     /\ calls = << FirstCall("returned", 1) >>

InitSetup ==
  /\ InitManager
  /\ shut = << >>
  /\ setups = << >>
  /\ \E m \in InitialMetadata : orgs = [ id \in {OrganizationPrefix \o <<"x">>} |-> m ]
  /\ remote = {}
  /\ checks = << >>
  /\ env = DefaultEnv
  /\ files = DeployedSchemas

NextSetup ==
  \/ \E id \in OrganizationIds, type \in OrganizationTypes : SetupStart(id, type)
  \/ \E id \in {CleanOrgId(i) : i \in OrganizationIds}, type \in OrganizationTypes :
       CreateStart(id, type)
  \/ \E s \in 1..Len(setups) : ReadFileSettles(s)
  \/ \E s \in 1..Len(setups) : PostSettles(s)
  \/ \E s \in 1..Len(setups) : GetMainDBSettles(s)
  \/ \E s \in 1..Len(setups) : SelectSettles(s)
  \/ \E s \in 1..Len(setups) : UpdateSettles(s)
  \/ \E i \in 1..Len(attempts) : ConnectSettles(i) /\ UNCHANGED setupVars
  \/ \E i \in 1..Len(attempts) : UseSettles(i) /\ UNCHANGED setupVars
  \/ \E c \in 1..Len(calls) : OwnerResumes(c) /\ UNCHANGED setupVars
  \/ \E c \in 1..Len(calls) : FollowerSettles(c) /\ UNCHANGED setupVars

SpecSetup == InitSetup /\ [][NextSetup]_vars

----------------------------------------------------------------------------
(* Claims about provisioning *)

Finished(s) == setups[s].pc \in {"done", "returned", "threw"}

\* C8: provisioning with a type outside {retail, restaurant} fails with the
\* invalid-type error before any I/O: no schema file is chosen or read, no
\* HTTP request is sent, no database is connected to or queried.
C8_InvalidTypeRejectedBeforeIO ==
  \A s \in 1..Len(setups) :
    ~ValidType(setups[s].organizationType) =>
      /\ setups[s].io = {}
      /\ setups[s].schemaFile = "none"
      /\ Finished(s) =>
           /\ setups[s].errorMessage = InvalidTypeMessage
           /\ ~setups[s].provisioned
           /\ setups[s].pc = "done" => ~setups[s].result.success

\* C9: when provisioning fails, a write of setupStatus=failed with the error
\* message is attempted, and whether or not that write succeeds the caller
\* receives the provisioning error, never the error of the write.
C9_ProvisioningErrorSurvivesStatusWrite ==
  \A s \in 1..Len(setups) :
    (setups[s].entry = "setup" /\ setups[s].provError # NoMessage) =>
      /\ \E w \in 1..Len(setups[s].writes) :
           /\ setups[s].writes[w].status = "failed"
           /\ setups[s].writes[w].error = setups[s].provError
      /\ setups[s].pc = "done" =>
           /\ setups[s].result.returned
           /\ ~setups[s].result.success
           /\ setups[s].result.error = setups[s].provError

C9_Witness ==
  \E s \in 1..Len(setups) :
    /\ setups[s].entry = "setup"
    /\ setups[s].provError \in ProvisioningMessages
    /\ setups[s].pc = "done"
    /\ setups[s].writes[Len(setups[s].writes)].status = "failed"
    /\ setups[s].writes[Len(setups[s].writes)].outcome = "threw"

\* C10: whenever the schema execution succeeded, the caller is told that
\* provisioning succeeded and no setupStatus=failed is stored for the
\* attempt, even if the write of the completed status failed.
C10_RecordingFailureKeepsSuccess ==
  \A s \in 1..Len(setups) :
    (setups[s].entry = "setup" /\ setups[s].provisioned /\ setups[s].pc = "done") =>
      /\ setups[s].result.success
      /\ \A w \in 1..Len(setups[s].writes) :
           ~(setups[s].writes[w].status = "failed" /\ setups[s].writes[w].outcome = "ok")

----------------------------------------------------------------------------
(* checkOrganizationSetup, checkOrganizationDatabaseExists and             *)
(* getOrganizationDatabase                                                 *)

MaxChecks == 1
MaxAttempts == 2
MaxRetryChecks == 1
MaxWriters == 2

\* organizationId.includes(':')
Includes(str, ch) == \E i \in 1..Len(str) : str[i] = ch

\* lines 169-171: fullOrgId
FullOrgId(organizationId) ==
  IF Includes(organizationId, ":")
    THEN organizationId
    ELSE OrganizationPrefix \o organizationId

\* line 192: org.metadata?.setup (a string has no property `setup`)
OptionalSetup(metadata) ==
  IF metadata.shape = "object" THEN metadata.setup ELSE NoSetup

\* surrealdb-multi.ts line 161: `needexcel_organization:${database}`
ExistsKey(orgId) == OrganizationNamespace \o <<":">> \o DatabaseName(orgId)

\* line 164: this.connections.has(key)
ExistsFastPathNever(orgId) == FALSE
ExistsFastPath(orgId) == ExistsKey(orgId) \in DOMAIN connections

NotFoundMessage == "Organization not found"
NoDatabaseMessage == "Database does not exist"
NoError == "absent"

NoCheckResult ==
  [ returned |-> FALSE, isSetup |-> FALSE, status |-> "none", error |-> NoError,
    database |-> << >>, exists |-> FALSE ]

Report(organizationId, isSetup, status, error) ==
  [ returned |-> TRUE, isSetup |-> isSetup, status |-> status, error |-> error,
    database |-> DatabaseName(CleanOrgId(organizationId)), exists |-> FALSE ]

\* lines 182-189
NotFoundProceeds(organizationId) ==
  Report(organizationId, TRUE, "completed", NoError)
NotFoundResult(organizationId) ==
  Report(organizationId, FALSE, "pending", NotFoundMessage)

\* lines 223-231: the catch block
CaughtResult(organizationId, message) ==
  Report(organizationId, FALSE, "failed", message)

\* lines 197-222
SetupResultNoInference(organizationId, setupMetadata, dbExists) ==
  IF dbExists /\ setupMetadata.present
    THEN Report(organizationId, setupMetadata.setupStatus = "completed",
                setupMetadata.setupStatus, setupMetadata.setupError)
    ELSE Report(organizationId, FALSE, "pending", NoDatabaseMessage)
SetupResultTrustsExistence(organizationId, setupMetadata, dbExists) ==
  IF ~dbExists
    THEN Report(organizationId, FALSE, "pending", NoDatabaseMessage)
  ELSE IF setupMetadata.present
    THEN Report(organizationId, dbExists,
                IF setupMetadata.setupStatus = "absent"
                  THEN "pending" ELSE setupMetadata.setupStatus,
                setupMetadata.setupError)
  ELSE Report(organizationId, TRUE, "completed", NoError)
SetupResult(organizationId, setupMetadata, dbExists) ==
  IF ~dbExists
    THEN Report(organizationId, FALSE, "pending", NoDatabaseMessage)
  ELSE IF setupMetadata.present
    THEN [ Report(organizationId,
                  setupMetadata.setupStatus = "completed",
                  IF setupMetadata.setupStatus = "absent"
                    THEN "pending" ELSE setupMetadata.setupStatus,
                  setupMetadata.setupError)
           EXCEPT !.database = IF setupMetadata.database = << >>
                                 THEN @ ELSE setupMetadata.database ]
  ELSE Report(organizationId, TRUE, "completed", NoError)

\* better-auth.middleware.ts lines 462-497: what requireOrganizationSetup
\* answers for a result of checkOrganizationSetup
RequireOrganizationSetup(result) ==
  IF result.isSetup THEN "next"
  ELSE IF result.status = "pending" THEN "503 setup in progress"
  ELSE IF result.status = "failed" THEN "500 setup failed"
  ELSE "503 not set up"

NewCheck(entry, organizationId, orgId) ==
  [ entry |-> entry, organizationId |-> organizationId,
    orgId |-> orgId,                  \* the parameter of the manager's method
    pc |-> "start", call |-> 0,
    recordId |-> << >>,               \* $orgId of the SELECT
    found |-> FALSE,                  \* the SELECT returned a record
    stored |-> NoMetadata,            \* org.metadata
    setupMetadata |-> NoSetup,
    cached |-> FALSE,                 \* line 164 was true
    hadConnection |-> FALSE,          \* getConnection's key was cached then
    target |-> << >>,                 \* the namespace and database asked for
    response |-> "none",              \* how INFO FOR DB settled
    dbExists |-> FALSE,
    io |-> {},                        \* the I/O done by this invocation
    caught |-> FALSE,                 \* a catch block was entered
    last |-> Len(setups),             \* the provisioning attempts issued before
    existed |-> { <<"issue", t>> : t \in remote },
                                      \* what `remote` held at issue and at return
    result |-> NoCheckResult ]

\* the value the caller of the method receives
Answer(rec, dbExists) ==
  [ rec EXCEPT
      !.pc = "done", !.dbExists = dbExists,
      !.existed = @ \cup { <<"return", t>> : t \in remote },
      !.result = IF rec.entry = "exists"
                   THEN [ NoCheckResult EXCEPT !.returned = TRUE, !.exists = dbExists ]
                   ELSE SetupResult(rec.organizationId, rec.setupMetadata, dbExists) ]

\* checkOrganizationDatabaseExists, lines 159-170: up to its return of line
\* 165 or its await of line 170
ExistsBegin(k, rec) ==
  LET asked == [ rec EXCEPT
        !.target = << OrganizationNamespace, DatabaseName(rec.orgId) >>,
        !.hadConnection = KeyOf(OrganizationNamespace, DatabaseName(rec.orgId))
                            \in DOMAIN connections ] IN
  IF ExistsFastPath(rec.orgId)
    THEN /\ checks' = [ k2 \in 1..k |-> IF k2 = k
                          THEN Answer([ asked EXCEPT !.cached = TRUE ], TRUE)
                          ELSE checks[k2] ]
         /\ UNCHANGED <<connections, connecting, attempts, socket, calls>>
    ELSE /\ IssueGetConnection(OrganizationNamespace, DatabaseName(rec.orgId))
         /\ checks' = [ k2 \in 1..k |-> IF k2 = k
                          THEN [ asked EXCEPT !.pc = "existsConnect",
                                              !.call = Len(calls) + 1 ]
                          ELSE checks[k2] ]

\* checkOrganizationSetup, lines 162-166: up to `await getMainDB()`
IssueCheck(organizationId) ==
  /\ IssueGetConnection(MAIN_NS, MAIN_DB)
  /\ checks' = Append(checks,
       [ NewCheck("check", organizationId, CleanOrgId(organizationId))
           EXCEPT !.pc = "getMainDB", !.call = Len(calls) + 1 ])
  /\ UNCHANGED <<shut, setups, orgs, remote, env, files>>

\* dbManager.checkOrganizationDatabaseExists called on its own
IssueExists(orgId) ==
  /\ ExistsBegin(Len(checks) + 1, NewCheck("exists", orgId, orgId))
  /\ UNCHANGED <<shut, setups, orgs, remote, env, files>>

\* getOrganizationDatabase, lines 74-77: the promise of getConnection is
\* what the caller gets
IssueGetOrganizationDatabase(orgId) ==
  /\ IssueGetConnection(env.ORG_NS, DatabaseName(orgId))
  /\ checks' = Append(checks,
       [ NewCheck("getOrganizationDatabase", orgId, orgId)
           EXCEPT !.pc = "delegated", !.call = Len(calls) + 1,
                  !.target = << env.ORG_NS, DatabaseName(orgId) >> ])
  /\ UNCHANGED <<shut, setups, orgs, remote, env, files>>

\* line 166: await getMainDB() settles; lines 169-177 run up to the SELECT
CheckGetMainDBSettles(k) ==
  LET rec == checks[k]
      c   == rec.call IN
  /\ rec.entry = "check"
  /\ rec.pc = "getMainDB"
  /\ Completed(c)
  /\ checks' = [checks EXCEPT ![k] =
       IF calls[c].pc = "returned"
         THEN [ rec EXCEPT !.pc = "select",
                  !.recordId = FullOrgId(rec.organizationId),
                  !.io = @ \cup (IF calls[c].role = "hit" THEN {} ELSE {"connect"}) ]
         ELSE [ rec EXCEPT !.pc = "done", !.caught = TRUE,
                  !.io = @ \cup {"connect"},
                  !.result = CaughtResult(rec.organizationId,
                                          MessageOf(calls[c].err)) ]]
  /\ UNCHANGED <<connections, connecting, attempts, socket, calls, shut,
                 setups, orgs, remote, env, files>>

\* line 174: the SELECT settles; lines 180-195 run up to the return of line
\* 183 or into checkOrganizationDatabaseExists
CheckSelectSettles(k) ==
  LET rec == [ checks[k] EXCEPT !.io = @ \cup {"query"} ]
      id  == FullOrgId(rec.organizationId) IN
  /\ checks[k].pc = "select"
  /\ \/ IF id \notin DOMAIN orgs
          THEN /\ checks' = [checks EXCEPT ![k] =
                    [ rec EXCEPT !.pc = "done",
                                 !.result = NotFoundResult(rec.organizationId) ]]
               /\ UNCHANGED <<connections, connecting, attempts, socket, calls>>
          ELSE ExistsBegin(k, [ rec EXCEPT !.found = TRUE, !.stored = orgs[id],
                                  !.setupMetadata = OptionalSetup(orgs[id]) ])
     \/ /\ checks' = [checks EXCEPT ![k] =
             [ rec EXCEPT !.pc = "done", !.caught = TRUE,
                          !.result = CaughtResult(rec.organizationId, QueryMessage) ]]
        /\ UNCHANGED <<connections, connecting, attempts, socket, calls>>
  /\ UNCHANGED <<shut, setups, orgs, remote, env, files>>

\* surrealdb-multi.ts line 170: await this.getConnection(...) settles; the
\* INFO FOR DB query is sent, or the catch of line 174 returns false
ExistsConnectSettles(k) ==
  LET rec == checks[k]
      c   == rec.call IN
  /\ rec.pc = "existsConnect"
  /\ Completed(c)
  /\ checks' = [checks EXCEPT ![k] =
       IF calls[c].pc = "returned"
         THEN [ rec EXCEPT !.pc = "info", !.io = @ \cup {"tenantConnect"} ]
         ELSE Answer([ rec EXCEPT !.io = @ \cup {"tenantConnect"} ], FALSE) ]
  /\ UNCHANGED <<connections, connecting, attempts, socket, calls, shut,
                 setups, orgs, remote, env, files>>

\* what db.query('INFO FOR DB;') settles with: a rejection, or the array of
\* the statements' results
InfoResponses == { "rejects", "empty", "info" }

\* line 173: result && result.length > 0
NonEmpty(response) == response = "info"

\* surrealdb-multi.ts lines 172-177
InfoSettles(k) ==
  /\ checks[k].pc = "info"
  /\ \E response \in InfoResponses :
       checks' = [checks EXCEPT ![k] =
         Answer([ checks[k] EXCEPT !.io = @ \cup {"info"}, !.response = response ],
                NonEmpty(response)) ]
  /\ UNCHANGED <<connections, connecting, attempts, socket, calls, shut,
                 setups, orgs, remote, env, files>>

\* the database of a tenant is removed on the server, outside this program
ExternalDelete ==
  /\ \E t \in remote : remote' = remote \ {t}
  /\ UNCHANGED <<connections, connecting, attempts, socket, calls, shut,
                 setups, orgs, checks, env, files>>

----------------------------------------------------------------------------
(* Status checks of a tenant next to its provisioning, one request at a    *)
(* time                                                                    *)

CheckFinished(k) ==
  \/ checks[k].pc = "done"
  \/ checks[k].pc = "delegated" /\ Completed(checks[k].call)

\* no request is in progress
Idle ==
  /\ \A s \in 1..Len(setups) : Finished(s)
  /\ \A k \in 1..Len(checks) : CheckFinished(k)

\* the tenant whose record exists, and an id no record exists for
TenantId == OrganizationPrefix \o <<"x">>
CheckIds == { TenantId, <<"y">> }

\* metadata written by another writer as an object that holds a setup object
RecordedObject ==
  [ EmptyObject EXCEPT
      !.other = "gold",
      !.setup = [ NoSetup EXCEPT !.present = TRUE, !.setupStatus = "failed",
                                 !.setupError = HttpMessage ] ]

\* The manager as earlier requests left it: databaseMiddleware has cached
\* the control-tenant connection, and a request that used or checked the
\* tenant's database may have cached that connection too.
TenantKey == KeyOf(OrganizationNamespace, DatabaseName(CleanOrgId(TenantId)))

InitWarm ==
  /\ connections = Put(EmptyMap, MainKey, 1) /\ connecting = EmptyMap
  /\ attempts = << FirstAttempt("fulfilled", TRUE) >>
  /\ socket = << "open" >>
  /\ calls = << FirstCall("returned", 1) >>

InitUsed ==
  /\ connections = Put(Put(EmptyMap, MainKey, 1), TenantKey, 2)
  /\ connecting = EmptyMap
  /\ attempts = << FirstAttempt("fulfilled", TRUE),
                   [ FirstAttempt("fulfilled", TRUE) EXCEPT
                       !.key = TenantKey, !.ns = OrganizationNamespace,
                       !.db = DatabaseName(CleanOrgId(TenantId)), !.owner = 2 ] >>
  /\ socket = << "open", "open" >>
  /\ calls = << FirstCall("returned", 1),
                [ FirstCall("returned", 2) EXCEPT
                    !.key = TenantKey, !.ns = OrganizationNamespace,
                    !.db = DatabaseName(CleanOrgId(TenantId)), !.att = 2 ] >>

\* the control tenant holds the record of TenantId, with one of `metadata`
InitTenant(metadata) ==
  /\ shut = << >>
  /\ setups = << >>
  /\ \E m \in metadata : orgs = [ id \in {TenantId} |-> m ]
  /\ remote = {}
  /\ checks = << >>
  /\ env = DefaultEnv
  /\ files = DeployedSchemas

\* The schema files are deployed with the program and the SELECT of a status
\* write is answered: here the failures of a provisioning are those of the
\* HTTP request and of the UPDATE.
ProvisioningSettles(s) ==
  \/ ReadFileSettles(s) /\ setups'[s].pc = "post"
  \/ PostSettles(s)
  \/ GetMainDBSettles(s)
  \/ SelectSettles(s) /\ setups'[s].pc = "update"
  \/ UpdateSettles(s)

\* The awaits of the manager.  With one request at a time no getConnection
\* is issued while an attempt is pending, so no caller is a follower.
ManagerSettles ==
  \/ \E i \in 1..Len(attempts) : ConnectSettles(i) /\ UNCHANGED setupVars
  \/ \E i \in 1..Len(attempts) : UseSettles(i) /\ UNCHANGED setupVars
  \/ \E c \in 1..Len(calls) : OwnerResumes(c) /\ UNCHANGED setupVars

ProvisionStart(organizationId, organizationType) ==
  /\ Idle
  /\ SetupStart(organizationId, organizationType)

CheckStart(organizationId) ==
  /\ Idle
  /\ Len(checks) < MaxChecks
  /\ IssueCheck(organizationId)

ExistsStart(orgId) ==
  /\ Idle
  /\ Len(checks) < MaxChecks
  /\ IssueExists(orgId)

\* the metadata better-auth stored as JSON text, or an object another writer
\* stored
StoredGold == [ EmptyObject EXCEPT !.other = "gold", !.shape = "string" ]

InitStatus == (InitWarm \/ InitUsed) /\ InitTenant({ StoredGold, RecordedObject })

NextStatus ==
  \/ \E type \in {"retail", "restaurant"} : ProvisionStart(TenantId, type)
  \/ \E id \in CheckIds : CheckStart(id)
  \/ ExistsStart(CleanOrgId(TenantId))
  \/ \E s \in 1..Len(setups) : ProvisioningSettles(s)
  \/ \E k \in 1..Len(checks) : CheckGetMainDBSettles(k)
  \/ \E k \in 1..Len(checks) : CheckSelectSettles(k)
  \/ \E k \in 1..Len(checks) : ExistsConnectSettles(k)
  \/ \E k \in 1..Len(checks) : InfoSettles(k)
  \/ Idle /\ ExternalDelete
  \/ ManagerSettles

SpecStatus == InitStatus /\ [][NextStatus]_vars

----------------------------------------------------------------------------
(* Claims about the status checks *)

\* a checkOrganizationSetup(TenantId) that returned from its try block
Checked(k) ==
  /\ checks[k].entry = "check"
  /\ checks[k].organizationId = TenantId
  /\ checks[k].pc = "done"
  /\ ~checks[k].caught

\* the database was on the server when the check was issued and when it
\* returned
ExistedDuring(k, t) ==
  <<"issue", t>> \in checks[k].existed /\ <<"return", t>> \in checks[k].existed
AbsentDuring(k, t) ==
  <<"issue", t>> \notin checks[k].existed /\ <<"return", t>> \notin checks[k].existed

\* the existence check inside the status check had its answer from the
\* cache or from an answered INFO FOR DB
ExistenceAnswered(k) == checks[k].cached \/ checks[k].response = "info"

\* the top-level keys of a stored metadata value other than `setup`
OtherKeys(metadata) == << metadata.other, metadata.spread >>

\* C11: after a provisioning of TenantId with type retail that failed and
\* whose setupStatus=failed write succeeded, checkOrganizationSetup reports
\* status failed with the recorded setupError, and the metadata keys other
\* than setup are what they were before the attempt.
C11_FailedProvisioningIsReportedFailed ==
  \A k \in 1..Len(checks) :
    LET s == checks[k].last IN
    ( /\ Checked(k) /\ s >= 1
      /\ setups[s].organizationType = "retail"
      /\ setups[s].pc = "done"
      /\ setups[s].provError # NoMessage
      /\ setups[s].writes[Len(setups[s].writes)].outcome = "ok" )
    => /\ checks[k].result.status = "failed"
       /\ checks[k].result.error = setups[s].provError
       /\ OtherKeys(checks[k].stored) = OtherKeys(setups[s].read)

\* C12: after a successful provisioning of TenantId with type restaurant
\* (the database not removed since, the check's queries answered),
\* checkOrganizationSetup reports isSetup=true and status=completed, and
\* checkOrganizationDatabaseExists returns true.
C12_SuccessfulProvisioningIsReportedCompleted ==
  \A k \in 1..Len(checks) :
    LET s == checks[k].last IN
    ( /\ checks[k].pc = "done" /\ ~checks[k].caught /\ s >= 1
      /\ checks[k].orgId = CleanOrgId(TenantId)
      /\ setups[s].organizationType = "restaurant"
      /\ setups[s].pc = "done" /\ setups[s].result.success
      /\ ExistedDuring(k, ProvisioningTarget(setups[s]))
      /\ ExistenceAnswered(k) )
    => /\ checks[k].dbExists
       /\ checks[k].entry = "exists" => checks[k].result.exists
       /\ checks[k].entry = "check" =>
            checks[k].result.isSetup /\ checks[k].result.status = "completed"

C12_Witness ==
  \E k \in 1..Len(checks) :
    /\ Checked(k) /\ checks[k].last >= 1
    /\ setups[checks[k].last].organizationType = "restaurant"
    /\ setups[checks[k].last].result.success
    /\ ExistedDuring(k, ProvisioningTarget(setups[checks[k].last]))
    /\ checks[k].response = "info"

\* C13: whenever the record of a tenant stores setupStatus=completed and the
\* tenant's database is not on the server, checkOrganizationSetup reports
\* status=pending and isSetup=false.
C13_MissingDatabaseIsReportedPending ==
  \A k \in 1..Len(checks) :
    ( /\ Checked(k) /\ checks[k].found
      /\ checks[k].stored.setup.setupStatus = "completed"
      /\ AbsentDuring(k, checks[k].target) )
    => checks[k].result.status = "pending" /\ ~checks[k].result.isSetup

\* C17: checkOrganizationDatabaseExists returns true without connecting or
\* querying when a connection for the tenant's key is cached; otherwise it
\* returns true exactly when getConnection returned and INFO FOR DB was
\* answered with a non-empty array; it always returns, and returns false
\* when the connection or the query failed.
C17_ExistenceIsReportedNotThrown ==
  \A k \in 1..Len(checks) :
    (checks[k].pc = "done" /\ checks[k].target # << >>) =>
      /\ checks[k].result.returned
      /\ checks[k].entry = "exists" => checks[k].result.exists = checks[k].dbExists
      /\ IF checks[k].hadConnection
           THEN /\ checks[k].dbExists
                /\ checks[k].io \cap {"tenantConnect", "info"} = {}
                /\ checks[k].entry = "exists" => checks[k].call = 0
           ELSE checks[k].dbExists <=>
                  /\ calls[checks[k].call].pc = "returned"
                  /\ checks[k].response = "info"

C17_Witness ==
  \E k \in 1..Len(checks) :
    /\ checks[k].pc = "done" /\ checks[k].entry = "exists"
    /\ ~checks[k].hadConnection
    /\ calls[checks[k].call].pc = "threw" /\ ~checks[k].result.exists

\* C18: when the record of the tenant exists and its database exists (and
\* the existence check says so): with a setup object recorded,
\* checkOrganizationSetup reports that object's setupStatus, and isSetup is
\* true only for completed; with no setup object recorded it reports
\* status=completed and isSetup=true.
C18_RecordedStatusIsAuthoritative ==
  \A k \in 1..Len(checks) :
    ( /\ Checked(k) /\ checks[k].found
      /\ ExistedDuring(k, checks[k].target)
      /\ checks[k].dbExists )
    => IF checks[k].stored.setup.present
         THEN /\ checks[k].result.status = checks[k].stored.setup.setupStatus
              /\ checks[k].result.isSetup <=>
                   checks[k].stored.setup.setupStatus = "completed"
         ELSE checks[k].result.status = "completed" /\ checks[k].result.isSetup

\* C19: for an id with no record in the control tenant,
\* checkOrganizationSetup returns (never throws), and when its SELECT was
\* answered it returns isSetup=false, status=pending with the not-found
\* message, without calling checkOrganizationDatabaseExists.
C19_UnknownTenantIsPending ==
  \A k \in 1..Len(checks) :
    ( /\ checks[k].entry = "check" /\ checks[k].pc = "done"
      /\ FullOrgId(checks[k].organizationId) \notin DOMAIN orgs )
    => /\ checks[k].result.returned
       /\ ~checks[k].caught =>
            /\ ~checks[k].result.isSetup
            /\ checks[k].result.status = "pending"
            /\ checks[k].result.error = NotFoundMessage
            /\ checks[k].target = << >>
            /\ checks[k].io \cap {"tenantConnect", "info"} = {}
            /\ \A c \in 1..Len(calls) :
                 calls[c].key # KeyOf(OrganizationNamespace,
                    DatabaseName(CleanOrgId(checks[k].organizationId)))

C19_Witness ==
  \E k \in 1..Len(checks) :
    /\ checks[k].entry = "check" /\ checks[k].pc = "done" /\ ~checks[k].caught
    /\ FullOrgId(checks[k].organizationId) \notin DOMAIN orgs

----------------------------------------------------------------------------
(* A provisioning that is retried after it failed *)

\* the caller invokes setupOrganizationDatabase again with the arguments of
\* the attempt before
RetryStart(organizationType) ==
  /\ Idle
  /\ Len(setups) < MaxAttempts
  /\ \A s \in 1..Len(setups) : setups[s].organizationType = organizationType
  /\ IssueSetup(TenantId, organizationType)

RetryCheckStart ==
  /\ Idle
  /\ Len(checks) < MaxRetryChecks
  /\ IssueCheck(TenantId)

InitRetry == InitWarm /\ InitTenant(InitialMetadata \cup {RecordedObject})

NextRetry ==
  \/ \E type \in {"retail", "restaurant"} : RetryStart(type)
  \/ RetryCheckStart
  \/ \E s \in 1..Len(setups) : ProvisioningSettles(s)
  \/ \E k \in 1..Len(checks) : CheckGetMainDBSettles(k)
  \/ \E k \in 1..Len(checks) : CheckSelectSettles(k)
  \/ \E k \in 1..Len(checks) : ExistsConnectSettles(k)
  \/ \E k \in 1..Len(checks) : InfoSettles(k)
  \/ ManagerSettles

SpecRetry == InitRetry /\ [][NextRetry]_vars

\* the attempt s returned a failure and its setupStatus=failed was stored
FailedAndRecorded(s) ==
  /\ setups[s].pc = "done" /\ ~setups[s].result.success
  /\ setups[s].writes[Len(setups[s].writes)].status = "failed"
  /\ setups[s].writes[Len(setups[s].writes)].outcome = "ok"

\* the attempt s returned success (its setupStatus=completed was stored)
SucceededAndRecorded(s) ==
  /\ setups[s].pc = "done" /\ setups[s].result.success
  /\ setups[s].writes[Len(setups[s].writes)].status = "completed"
  /\ setups[s].writes[Len(setups[s].writes)].outcome = "ok"

Wrote(s) ==
  /\ setups[s].pc = "done"
  /\ UpdateRecordId(setups[s].organizationId) \in DOMAIN orgs
  /\ \E w \in 1..Len(setups[s].writes) : setups[s].writes[w].outcome = "ok"

\* the SELECT of line 119 of attempt t was answered
ReadBack(t) == setups[t].write.shape # "none"

\* C27: what updateOrganizationMetadata stored is read back, by a later
\* updateOrganizationMetadata (line 128) and by checkOrganizationSetup (line
\* 192), as an object whose setup sub-object holds the recorded keys.
C27_MetadataRoundTrips ==
  \A s \in 1..Len(setups) :
    Wrote(s) =>
      /\ \A t \in 1..Len(setups) :
           ( t > s /\ ReadBack(t)
             /\ UpdateRecordId(setups[t].organizationId)
                  = UpdateRecordId(setups[s].organizationId) )
           => /\ setups[t].read.shape = "object"
              /\ SetupOf(setups[t].read).present
      /\ \A k \in 1..Len(checks) :
           ( checks[k].last >= s /\ checks[k].found
             /\ FullOrgId(checks[k].organizationId)
                  = UpdateRecordId(setups[s].organizationId) )
           => /\ checks[k].stored.shape = "object"
              /\ checks[k].setupMetadata.present

----------------------------------------------------------------------------
(* Provisioning attempts of one tenant that run at the same time *)

WriterStart(organizationType) ==
  /\ Len(setups) < MaxWriters
  /\ IssueSetup(TenantId, organizationType)

InitRecord == InitWarm /\ InitTenant(InitialMetadata \cup {RecordedObject})

NextRecord ==
  \/ \E type \in {"retail", "restaurant"} : WriterStart(type)
  \/ \E s \in 1..Len(setups) : ReadFileSettles(s) /\ setups'[s].pc = "post"
  \/ \E s \in 1..Len(setups) : PostSettles(s)
  \/ \E s \in 1..Len(setups) : GetMainDBSettles(s)
  \/ \E s \in 1..Len(setups) : SelectSettles(s) /\ setups'[s].pc = "update"
  \/ \E s \in 1..Len(setups) : UpdateSettles(s)

SpecRecord == InitRecord /\ [][NextRecord]_vars

\* the attempt s made one status write, and it was stored
WroteOnce(s) ==
  /\ setups[s].pc = "done"
  /\ Len(setups[s].writes) = 1
  /\ setups[s].writes[1].outcome = "ok"

\* C15: when two attempts for the same tenant each record their outcome and
\* their read-merge-write steps overlap (both read before either wrote),
\* the setup object stored in the end is the setup object they read with
\* the two patches merged into it one after the other (lines 133-136), in
\* one of the two orders.
C15_StatusUpdatesAreNotLost ==
  \A a \in 1..Len(setups) : \A b \in 1..Len(setups) :
    ( /\ a < b /\ WroteOnce(a) /\ WroteOnce(b)
      /\ setups[a].read = setups[b].read
      /\ \A s \in 1..Len(setups) : s \in {a, b} \/ setups[s].writes = << >> )
    => orgs[TenantId].setup \in
         { MergeSetup(MergeSetup(setups[a].read.setup, setups[a].patch),
                      setups[b].patch),
           MergeSetup(MergeSetup(setups[a].read.setup, setups[b].patch),
                      setups[a].patch) }

\* the keys of a setup object
SetupKeys ==
  {"database", "setupStatus", "setupTimestamp", "setupError", "organizationType"}

\* C16: a status write changes only the setup object of the tenant's
\* metadata: the other top-level keys are after the write what the record
\* held before, the keys of the existing setup object that the patch does
\* not name keep their values, and the keys the patch names take the
\* patch's values; for the first write and for every later one.
C16_OnlyTheSetupObjectChanges ==
  \A s \in 1..Len(setups) :
    (setups[s].pc = "done" /\ setups[s].writes # << >>
       /\ setups[s].writes[Len(setups[s].writes)].outcome = "ok") =>
      /\ OtherKeys(setups[s].write) = OtherKeys(setups[s].read)
      /\ \A key \in SetupKeys :
           setups[s].write.setup[key] =
             IF key \in setups[s].patch.keys
               THEN setups[s].patch[key]
               ELSE setups[s].read.setup[key]

----------------------------------------------------------------------------
(* The manager's three operations on a tenant's database, under a          *)
(* configured environment                                                  *)

\* the orgId arguments the callers pass
OrgIds == { <<"x">>, <<"y">> }

UseStart(orgId) ==
  /\ Len(checks) < MaxChecks
  /\ IssueGetOrganizationDatabase(orgId)

DatabaseExistsStart(orgId) ==
  /\ Len(checks) < MaxChecks
  /\ IssueExists(orgId)

\* createOrganizationDatabase up to axios.post: the request is on its way
PostSent(s) == setups[s].provisioned \/ "http" \in setups[s].io \/ setups[s].pc = "post"

InitOperations ==
  /\ connections = EmptyMap /\ connecting = EmptyMap
  /\ attempts = << >> /\ socket = << >> /\ calls = << >>
  /\ shut = << >>
  /\ setups = << >>
  /\ orgs = EmptyMap
  /\ remote = {}
  /\ checks = << >>
  /\ env \in { DefaultEnv, ConfiguredEnv }
  /\ files = DeployedSchemas

NextOperations ==
  \/ \E orgId \in OrgIds : UseStart(orgId)
  \/ \E orgId \in OrgIds : DatabaseExistsStart(orgId)
  \/ \E orgId \in OrgIds, type \in {"retail", "restaurant"} : CreateStart(orgId, type)
  \/ \E s \in 1..Len(setups) : ReadFileSettles(s)
  \/ \E s \in 1..Len(setups) : PostSettles(s)
  \/ \E k \in 1..Len(checks) : ExistsConnectSettles(k)
  \/ \E k \in 1..Len(checks) : InfoSettles(k)
  \/ \E i \in 1..Len(attempts) : ConnectSettles(i) /\ UNCHANGED setupVars
  \/ \E i \in 1..Len(attempts) : UseSettles(i) /\ UNCHANGED setupVars
  \/ \E c \in 1..Len(calls) : OwnerResumes(c) /\ UNCHANGED setupVars

SpecOperations == InitOperations /\ [][NextOperations]_vars

\* C20: whatever the id and whatever ORG_NS is configured, provisioning,
\* the existence check and getOrganizationDatabase address the same
\* namespace and database for an id: the configured organization namespace
\* and `org_` followed by the id.
C20_OneTenantKeyForAllOperations ==
  /\ \A k \in 1..Len(checks) :
       checks[k].target # << >> =>
         /\ checks[k].target = << env.ORG_NS, DatabaseName(checks[k].orgId) >>
         /\ checks[k].call # 0 =>
              << calls[checks[k].call].ns, calls[checks[k].call].db >>
                = checks[k].target
  /\ \A s \in 1..Len(setups) :
       PostSent(s) =>
         /\ ProvisioningTarget(setups[s])
              = << env.ORG_NS, DatabaseName(setups[s].organizationId) >>
         /\ \A k \in 1..Len(checks) :
              ( checks[k].target # << >>
                /\ checks[k].orgId = setups[s].organizationId )
              => checks[k].target = ProvisioningTarget(setups[s])

----------------------------------------------------------------------------
(* The schema text that is executed: any template, ids with and without   *)
(* the character $                                                         *)

MaxTemplateLen == 6

TemplateAlphabet == { "_", "D", ";" }

Templates == UNION { [ 1..n -> TemplateAlphabet ] : n \in 0..MaxTemplateLen }

\* ids as the callers pass them: any string
SchemaIds == { <<"x">>, <<"$", "&">>, <<"$", "$">>, <<"$", "'">> }

InitSchema ==
  /\ connections = EmptyMap /\ connecting = EmptyMap
  /\ attempts = << >> /\ socket = << >> /\ calls = << >>
  /\ shut = << >>
  /\ setups = << >>
  /\ orgs = EmptyMap
  /\ remote = {}
  /\ checks = << >>
  /\ env = DefaultEnv
  /\ \E t \in Templates : files = [ f \in SchemaFiles |-> t ]

NextSchema ==
  \/ \E id \in SchemaIds, type \in { "retail", "restaurant" } : CreateStart(id, type)
  \/ \E f \in SchemaFiles, id \in SchemaIds : RunSchemaFileStart(f, DatabaseName(id))
  \/ \E s \in 1..Len(setups) : ReadFileSettles(s)
  \/ \E s \in 1..Len(setups) : PostSettles(s)
  \/ \E s \in 1..Len(setups) : RunQuerySettles(s)

SpecSchema == InitSchema /\ [][NextSchema]_vars

\* the text `str` from position pos on with every occurrence of the token,
\* found from left to right, replaced by `text` itself
RECURSIVE Verbatim(_, _, _, _)
Verbatim(str, pos, token, text) ==
  IF pos > Len(str) THEN << >>
  ELSE IF MatchesAt(str, pos, token)
    THEN text \o Verbatim(str, pos + Len(token), token, text)
    ELSE << str[pos] >> \o Verbatim(str, pos + 1, token, text)

\* the schema file has been read and the text to execute has been built
Substituted(s) == setups[s].pc \in { "post", "query", "returned", "threw" }
                  /\ "readFile" \in setups[s].io
                  /\ setups[s].provError # ReadFileMessage

\* C21: the text that is executed is the template with every occurrence of
\* the placeholder token replaced by the derived database name and all
\* other text unchanged.
C21_EveryPlaceholderBecomesTheDatabaseName ==
  \A s \in 1..Len(setups) :
    Substituted(s) =>
      setups[s].schemaContent
        = Verbatim(setups[s].template, 1, PlaceholderToken,
                   SubstitutedName(setups[s]))

----------------------------------------------------------------------------
(* checkOrganizationDatabaseExists called again and again, on a server     *)
(* whose databases do not change                                           *)

MaxExists == 2

RepeatedExistsStart(orgId) ==
  /\ Idle
  /\ Len(checks) < MaxExists
  /\ IssueExists(orgId)

InitExists ==
  /\ connections = EmptyMap /\ connecting = EmptyMap
  /\ attempts = << >> /\ socket = << >> /\ calls = << >>
  /\ shut = << >>
  /\ setups = << >>
  /\ orgs = EmptyMap
  /\ remote \in SUBSET { << OrganizationNamespace, DatabaseName(<<"x">>) >> }
  /\ checks = << >>
  /\ env = DefaultEnv
  /\ files = DeployedSchemas

NextExists ==
  \/ \E orgId \in OrgIds : RepeatedExistsStart(orgId)
  \/ \E k \in 1..Len(checks) : ExistsConnectSettles(k)
  \/ \E k \in 1..Len(checks) : InfoSettles(k)
  \/ ManagerSettles

SpecExists == InitExists /\ [][NextExists]_vars

\* call j of checkOrganizationDatabaseExists follows call k on the same id;
\* call k connected, asked the server and returned false; whenever call j
\* asked the server it was answered as call k was
FollowsNegative(k, j) ==
  /\ k < j
  /\ checks[k].entry = "exists" /\ checks[j].entry = "exists"
  /\ checks[k].orgId = checks[j].orgId
  /\ checks[k].pc = "done" /\ checks[j].pc = "done"
  /\ checks[k].response \in { "rejects", "empty" }
  /\ ~checks[k].result.exists
  /\ checks[j].response \in { "none", checks[k].response }

\* C26: when checkOrganizationDatabaseExists(id) returned false and the
\* server's databases have not changed, a following call for the same id
\* returns false as well.
C26_ExistsAnswerIsStable ==
  \A k \in 1..Len(checks) : \A j \in 1..Len(checks) :
    FollowsNegative(k, j) => ~checks[j].result.exists

----------------------------------------------------------------------------
(* The forms of a tenant id: with the prefix, without it, with a colon of  *)
(* its own                                                                 *)

IdForms ==
  { OrganizationPrefix \o <<"x">>, <<"x">>, <<"a", ":", "b">>,
    OrganizationPrefix \o <<"a", ":", "b">> }

InitIds ==
  /\ InitWarm
  /\ shut = << >>
  /\ setups = << >>
  /\ orgs = [ id \in { OrganizationPrefix \o <<"x">>,
                       OrganizationPrefix \o <<"a", ":", "b">> } |-> StoredGold ]
  /\ remote = {}
  /\ checks = << >>
  /\ env = DefaultEnv
  /\ files = DeployedSchemas

NextIds ==
  \/ \E id \in IdForms, type \in {"retail", "restaurant"} : ProvisionStart(id, type)
  \/ \E id \in IdForms : CheckStart(id)
  \/ \E s \in 1..Len(setups) : ProvisioningSettles(s)
  \/ \E k \in 1..Len(checks) : CheckGetMainDBSettles(k)
  \/ \E k \in 1..Len(checks) : CheckSelectSettles(k)
  \/ \E k \in 1..Len(checks) : ExistsConnectSettles(k)
  \/ \E k \in 1..Len(checks) : InfoSettles(k)
  \/ ManagerSettles

SpecIds == InitIds /\ [][NextIds]_vars

\* C28: for every form of a tenant id, updateOrganizationMetadata and
\* checkOrganizationSetup address the same record of the control tenant,
\* and setupOrganizationDatabase and checkOrganizationSetup derive the same
\* database name.
C28_OneRecordAndOneDatabasePerId ==
  \A s \in 1..Len(setups) : \A k \in 1..Len(checks) :
    ( /\ setups[s].organizationId = checks[k].organizationId
      /\ setups[s].recordId # << >>
      /\ checks[k].recordId # << >> )
    => /\ setups[s].recordId = checks[k].recordId
       /\ ProvisioningTarget(setups[s])[2]
            = DatabaseName(CleanOrgId(checks[k].organizationId))
       /\ checks[k].result.returned =>
            checks[k].result.database = ProvisioningTarget(setups[s])[2]

----------------------------------------------------------------------------
(* The results of checkOrganizationSetup *)

\* C29: checkOrganizationSetup reports status=failed, and
\* requireOrganizationSetup answers with its setup-failed response, only
\* when the record of the tenant stores setupStatus=failed; not when the
\* control tenant could not be reached or queried.
C29_FailedMeansRecordedFailed ==
  \A k \in 1..Len(checks) :
    ( checks[k].entry = "check" /\ checks[k].result.returned
      /\ \/ checks[k].result.status = "failed"
         \/ RequireOrganizationSetup(checks[k].result) = "500 setup failed" )
    => /\ ~checks[k].caught
       /\ checks[k].found
       /\ checks[k].stored.setup.setupStatus = "failed"

\* the setup objects a record may hold: without a setupStatus, completed,
\* failed
RecordedStatuses == { "absent", "completed", "failed" }

RecordedObjects ==
  { [ RecordedObject EXCEPT !.setup.setupStatus = status,
        !.setup.setupError = IF status = "failed" THEN HttpMessage ELSE "absent" ] :
      status \in RecordedStatuses }

InitResult ==
  (InitWarm \/ InitUsed) /\ InitTenant(RecordedObjects \cup { StoredGold, NoMetadata })

NextResult ==
  \/ \E id \in CheckIds : CheckStart(id)
  \/ \E k \in 1..Len(checks) : CheckGetMainDBSettles(k)
  \/ \E k \in 1..Len(checks) : CheckSelectSettles(k)
  \/ \E k \in 1..Len(checks) : ExistsConnectSettles(k)
  \/ \E k \in 1..Len(checks) : InfoSettles(k)
  \/ ManagerSettles

SpecResult == InitResult /\ [][NextResult]_vars

====
